---- MODULE Spec2Model ----
(***************************************************************************)
(* A model of cmd/evm/runner.go: the `evm run` harness.  One behaviour is  *)
(* one process: runCmd walks through its steps (tracer selection, genesis, *)
(* code resolution, gas, CPU profile, input resolution, dispatch,          *)
(* timedExec, dump, memory profile, debug rendering, stats, output,        *)
(* return).  ctx holds the parsed command line, env the files and streams  *)
(* the process reads.  os.Exit(1) ends the process without running the     *)
(* deferred calls; a return runs them.                                     *)
(***************************************************************************)
EXTENDS Integers, Sequences, FiniteSets, TLC

VARIABLES
    ctx,            \* the parsed flags and the positional argument
    env,            \* what the process finds outside: files, stdin, profiles
    pc,             \* the step runCmd is at
    exit,           \* "running", or how the process ended: "nil", "err", "exit1"
    failure,        \* which message a failed run printed ("" if none)
    tracer,         \* runtimeConfig.EVMConfig.Tracer: "nil", "struct", "json"
    debugLogger,    \* debugLogger != nil
    statedb,        \* the state store: code at the receiver, count of engine writes
    genesisConfig,  \* the genesis view
    hexcode,        \* the trimmed hex text of the code
    code,           \* the resolved code
    initialGas,     \* the gas the run starts with
    runtimeConfig,  \* the execution configuration
    cpuProfile,     \* the process-wide CPU profile: "off", "running", "stopped"
    hexInput,       \* the trimmed hex text of the input
    input,          \* the resolved input (create mode: code followed by input)
    execFunc,       \* the unit of work: "unset", "create", "call"
    setCodeCalls,   \* how often runCmd called statedb.SetCode(receiver, ...)
    execCount,      \* how often timedExec invoked the unit of work
    lastCall,       \* the engine entry point last invoked, and what it was given
    result,         \* output, gasLeft, err as timedExec holds them
    stdout,         \* what the process wrote to standard output
    stderr          \* what the process wrote to standard error

vars == <<ctx, env, pc, exit, failure, tracer, debugLogger, statedb, genesisConfig,
          hexcode, code, initialGas, runtimeConfig, cpuProfile, hexInput, input,
          execFunc, setCodeCalls, execCount, lastCall, result, stdout, stderr>>

(***************************************************************************)
(* Bounds.                                                                 *)
(***************************************************************************)
MaxGas == 2
MaxIter == 2

(***************************************************************************)
(* Text and bytes.  A text is a sequence of one-character strings, a byte  *)
(* string a sequence of 0..255.                                            *)
(***************************************************************************)
IsSpace(c) == c \in {" ", "\n", "\t", "\r"}

RECURSIVE TrimLeft(_)
TrimLeft(s) == IF s # <<>> /\ IsSpace(Head(s)) THEN TrimLeft(Tail(s)) ELSE s

RECURSIVE TrimRight(_)
TrimRight(s) ==
    IF s # <<>> /\ IsSpace(s[Len(s)]) THEN TrimRight(SubSeq(s, 1, Len(s) - 1)) ELSE s

TrimSpace(s) == TrimRight(TrimLeft(s))

HexDigits == <<"0", "1", "2", "3", "4", "5", "6", "7",
               "8", "9", "a", "b", "c", "d", "e", "f">>

\* The value of a hex digit, 255 for any other character (reverseHexTable).
HexVal(c) ==
    IF \E i \in 1..16 : HexDigits[i] = c
    THEN (CHOOSE i \in 1..16 : HexDigits[i] = c) - 1
    ELSE 255

\* hex.DecodeString, its error dropped: the bytes decoded before the first
\* invalid character, a trailing unpaired character ignored.
RECURSIVE Hex2Bytes(_)
Hex2Bytes(s) ==
    IF Len(s) < 2 THEN <<>>
    ELSE IF HexVal(s[1]) > 15 \/ HexVal(s[2]) > 15 THEN <<>>
    ELSE <<HexVal(s[1]) * 16 + HexVal(s[2])>> \o Hex2Bytes(SubSeq(s, 3, Len(s)))

has0xPrefix(s) == Len(s) >= 2 /\ s[1] = "0" /\ s[2] \in {"x", "X"}

\* common.FromHex: drops a 0x prefix, pads an odd-length text with a leading 0.
FromHex(s) ==
    LET t == IF has0xPrefix(s) THEN SubSeq(s, 3, Len(s)) ELSE s
        u == IF Len(t) % 2 = 1 THEN <<"0">> \o t ELSE t
    IN  Hex2Bytes(u)

(***************************************************************************)
(* The inputs: texts a flag, a file or stdin may hold.                     *)
(***************************************************************************)
NoFile == [ok |-> FALSE, data |-> <<>>]
File(d) == [ok |-> TRUE, data |-> d]

FlagTexts ==
    { <<>>,                                 \* flag not given
      <<"6", "0">>,                         \* one byte
      <<"0", "x", "6", "0", "0", "1">>,     \* prefixed, two bytes
      <<"6", "0", "5">>,                    \* odd
      <<" ", "6", "0", "\n">>,              \* even once trimmed
      <<"6", " ">>,                         \* odd once trimmed
      <<" ">> }                             \* nothing once trimmed

FileTexts ==
    { <<"f", "e", "\n">>,                   \* a file ends in a newline
      <<"f", "e", "f">>,                    \* odd
      <<>> }                                \* an empty file

\* Hex the assembler may print for a source file.
CompiledBins == { <<"5", "b">>, <<>> }

SeedCodes == { <<>>, <<254>> }

Outputs == { <<>>, <<171>> }
ExecErrors == { "", "execution reverted" }

(***************************************************************************)
(* What the process writes: one token per print call.                      *)
(***************************************************************************)
Tok(kind, bytes, text, n) == [kind |-> kind, bytes |-> bytes, text |-> text, n |-> n]
Msg(text) == Tok("message", <<>>, text, 0)

(***************************************************************************)
(* The engine (core/vm/runtime) and the state store (core/state).          *)
(***************************************************************************)
EmptyState == [code |-> <<>>, writes |-> 0]

\* statedb.SetCode(receiver, c)
SetCode(db, c) == [db EXCEPT !.code = c]

\* runtime.Create / runtime.Call: some output, some gas left of the limit, maybe
\* an error.
EngineResults(gasLimit) ==
    [output : Outputs, gasLeft : 0..gasLimit, err : ExecErrors]

\* The engine works on the state store in place; it leaves the code at the
\* receiver alone.
EngineWrites(db) == [db EXCEPT !.writes = @ + 1]

NoResult == [output |-> <<>>, gasLeft |-> 0, err |-> ""]
NoCall == [entry |-> "none", payload |-> <<>>, receiverCode |-> <<>>, stateBefore |-> 0,
           returned |-> NoResult]

(***************************************************************************)
(* The decisions of runCmd and timedExec.  Each is preceded by the variants *)
(* of it that the properties below must tell apart from it.                *)
(***************************************************************************)
\* Lines 129-136.
SelectTracer(machine, debug) ==
    IF machine THEN [tracer |-> "json", debugLogger |-> FALSE]
    ELSE IF debug THEN [tracer |-> "struct", debugLogger |-> TRUE]
    ELSE [tracer |-> "nil", debugLogger |-> TRUE]

\* Variant: the inline code flag is looked at before the codefile flag.
CodeSourceInlineFirst(codeFileFlag, codeFlag) ==
    IF codeFlag # <<>> THEN "flag"
    ELSE IF codeFileFlag # ""
         THEN IF codeFileFlag = "-" THEN "stdin" ELSE "file"
         ELSE "none"

\* Lines 162-182: where the hex text of the code comes from.
CodeSource(codeFileFlag, codeFlag) ==
    IF codeFileFlag # "" \/ codeFlag # <<>>
    THEN IF codeFileFlag # ""
         THEN IF codeFileFlag = "-" THEN "stdin" ELSE "file"
         ELSE "flag"
    ELSE "none"

\* Variant: no length check, so FromHex pads an odd text and the run goes on.
OddLengthUnchecked(hex) == FALSE

\* Lines 184 and 251.
OddLength(hex) == Len(hex) % 2 # 0

\* Variant: a nonzero gas flag overrides the genesis gas limit.
InitialGasFlagFirst(gasFlag, genesisGasLimit) ==
    IF gasFlag # 0 THEN gasFlag ELSE genesisGasLimit

\* Lines 201-204.
InitialGas(gasFlag, genesisGasLimit) ==
    IF genesisGasLimit # 0 THEN genesisGasLimit ELSE gasFlag

\* Variant: the input comes before the code.
CreatePayloadSwapped(c, in) == in \o c

\* Line 259.
CreatePayload(c, in) == c \o in

\* Variant: SetCode without the length check, so an empty code wipes the receiver.
ShouldInstallAlways(c) == TRUE

\* Line 265.
ShouldInstall(c) == Len(c) > 0

\* Lines 82-86 and 98: the unit of work runs once, or b.N times over the rounds
\* of testing.Benchmark, which always runs a first round of one.
MayInvoke(bench, n) == IF bench THEN n < MaxIter ELSE n = 0

\* Variant: the first invocation's results are kept.
RetainFirst(held, new, n) == IF n = 0 THEN new ELSE held

\* Lines 85 and 98: output, gasLeft, err = execFunc()
Retain(held, new, n) == new

\* Lines 85 and 98: the closure runs on the state store as it stands.
StateForInvocation(db, n) == db

\* Variant: the trace header is written without asking for a logger.
DebugRenderUnguarded(hasLogger) ==
    <<Tok("trace", <<>>, "#### TRACE ####", 0), Tok("logs", <<>>, "#### LOGS ####", 0)>>

\* Lines 296-301.
DebugRender(hasLogger) ==
    (IF hasLogger THEN <<Tok("trace", <<>>, "#### TRACE ####", 0)>> ELSE <<>>)
    \o <<Tok("logs", <<>>, "#### LOGS ####", 0)>>

\* Lines 304-310.
StatsLine(bench, statdump, gas0, left) ==
    IF bench \/ statdump THEN <<Tok("stats", <<>>, "EVM gas used", gas0 - left)>> ELSE <<>>

\* Variant: the error line is left out.
ResultLinesNoError(tr, out, err) ==
    IF tr = "nil" THEN <<Tok("output", out, "", 0)>> ELSE <<>>

\* Variant: the result is printed whatever the tracer.
ResultLinesAnyTracer(tr, out, err) ==
    <<Tok("output", out, "", 0)>>
    \o (IF err # "" THEN <<Tok("error", <<>>, err, 0)>> ELSE <<>>)

\* Lines 311-316.
ResultLines(tr, out, err) ==
    IF tr = "nil"
    THEN <<Tok("output", out, "", 0)>>
         \o (IF err # "" THEN <<Tok("error", <<>>, err, 0)>> ELSE <<>>)
    ELSE <<>>

\* Line 231: the deferred pprof.StopCPUProfile, run when runCmd returns.
Deferred(profile) == IF profile = "running" THEN "stopped" ELSE profile

(***************************************************************************)
(* The ways a run ends.                                                    *)
(***************************************************************************)
\* fmt.Print... then os.Exit(1): no deferred call runs.
Exit1(why) ==
    /\ pc' = "done"
    /\ exit' = "exit1"
    /\ failure' = why
    /\ stdout' = Append(stdout, Msg(why))
    /\ UNCHANGED cpuProfile

\* utils.Fatalf: the message goes to standard error.
Fatalf(why) ==
    /\ pc' = "done"
    /\ exit' = "exit1"
    /\ failure' = why
    /\ stderr' = Append(stderr, Msg(why))
    /\ UNCHANGED cpuProfile

\* return err: the deferred calls run.
ReturnErr(why) ==
    /\ pc' = "done"
    /\ exit' = "err"
    /\ failure' = why
    /\ cpuProfile' = Deferred(cpuProfile)
    /\ UNCHANGED stdout

Goto(next) == pc' = next /\ UNCHANGED <<exit, failure>>

(***************************************************************************)
(* The steps of runCmd.                                                    *)
(***************************************************************************)
\* Lines 109-136.
ChooseTracer ==
    /\ pc = "start"
    /\ LET t == SelectTracer(ctx.machine, ctx.debug)
       IN  tracer' = t.tracer /\ debugLogger' = t.debugLogger
    /\ Goto("genesis")
    /\ UNCHANGED <<ctx, env, statedb, genesisConfig, hexcode, code, initialGas,
                   runtimeConfig, cpuProfile, hexInput, input, execFunc, setCodeCalls,
                   execCount, lastCall, result, stdout, stderr>>

\* Lines 137-155 (readGenesis: lines 56-73).  CreateAccount(sender) touches the
\* sender's account alone; the receiver is another address.
InitState ==
    /\ pc = "genesis"
    /\ IF ctx.genesis /\ ~env.genesis.ok
       THEN /\ Fatalf("Failed to read genesis file")
            /\ UNCHANGED <<statedb, genesisConfig, stdout>>
       ELSE /\ IF ctx.genesis
               THEN /\ genesisConfig' = [GasLimit |-> env.genesis.GasLimit]
                    /\ statedb' = [code |-> env.genesis.code, writes |-> 0]
               ELSE /\ genesisConfig' = [GasLimit |-> 0]
                    /\ statedb' = EmptyState
            /\ Goto("code")
            /\ UNCHANGED <<cpuProfile, stdout, stderr>>
    /\ UNCHANGED <<ctx, env, tracer, debugLogger, hexcode, code, initialGas,
                   runtimeConfig, hexInput, input, execFunc, setCodeCalls,
                   execCount, lastCall, result>>

\* What the code resolver reads from source src (lines 169, 175, 181).
ReadCode(src) ==
    CASE src = "stdin" -> env.stdin
      [] src = "file"  -> env.codeFile
      [] OTHER         -> File(ctx.code)

\* Lines 157-200.
ResolveCode ==
    /\ pc = "code"
    /\ LET src == CodeSource(ctx.codefile, ctx.code)
           read == ReadCode(src)
           hex == TrimSpace(read.data)
       IN  IF src # "none"
           THEN IF ~read.ok
                THEN /\ Exit1("Could not load code")
                     /\ UNCHANGED <<hexcode, code>>
                ELSE /\ hexcode' = hex
                     /\ IF OddLength(hex)
                        THEN /\ Exit1("Invalid input length for hex data")
                             /\ UNCHANGED code
                        ELSE /\ code' = FromHex(hex)
                             /\ Goto("gas")
                             /\ UNCHANGED <<cpuProfile, stdout>>
           ELSE IF ctx.arg # ""
           THEN /\ UNCHANGED hexcode
                /\ IF ~env.source.ok
                   THEN ReturnErr("compile") /\ UNCHANGED code
                   ELSE /\ code' = Hex2Bytes(env.source.data)
                        /\ Goto("gas")
                        /\ UNCHANGED <<cpuProfile, stdout>>
           ELSE /\ Goto("gas")
                /\ UNCHANGED <<hexcode, code, cpuProfile, stdout>>
    /\ UNCHANGED <<ctx, env, tracer, debugLogger, statedb, genesisConfig, initialGas,
                   runtimeConfig, hexInput, input, execFunc, setCodeCalls,
                   execCount, lastCall, result, stderr>>

\* Lines 201-219.
ConfigureGas ==
    /\ pc = "gas"
    /\ initialGas' = InitialGas(ctx.gas, genesisConfig.GasLimit)
    /\ runtimeConfig' = [GasLimit |-> initialGas', Tracer |-> tracer,
                         Debug |-> ctx.debug \/ ctx.machine]
    /\ Goto("cpuprofile")
    /\ UNCHANGED <<ctx, env, tracer, debugLogger, statedb, genesisConfig, hexcode, code,
                   cpuProfile, hexInput, input, execFunc, setCodeCalls,
                   execCount, lastCall, result, stdout, stderr>>

\* Lines 221-232.
StartCPUProfile ==
    /\ pc = "cpuprofile"
    /\ IF ctx.cpuprofile /\ ~env.cpuOK
       THEN Exit1("could not start CPU profile")
       ELSE /\ cpuProfile' = IF ctx.cpuprofile THEN "running" ELSE cpuProfile
            /\ Goto("input")
            /\ UNCHANGED stdout
    /\ UNCHANGED <<ctx, env, tracer, debugLogger, statedb, genesisConfig, hexcode, code,
                   initialGas, runtimeConfig, hexInput, input, execFunc,
                   setCodeCalls, execCount, lastCall, result, stderr>>

\* Lines 240-255.
ResolveInput ==
    /\ pc = "input"
    /\ LET read == IF ctx.inputfile THEN env.inputFile ELSE File(ctx.input)
           hex == TrimSpace(read.data)
       IN  IF ~read.ok
           THEN /\ Exit1("could not load input from file")
                /\ UNCHANGED <<hexInput, input>>
           ELSE /\ hexInput' = hex
                /\ IF OddLength(hex)
                   THEN /\ Exit1("input length must be even")
                        /\ UNCHANGED input
                   ELSE /\ input' = FromHex(hex)
                        /\ Goto("dispatch")
                        /\ UNCHANGED <<cpuProfile, stdout>>
    /\ UNCHANGED <<ctx, env, tracer, debugLogger, statedb, genesisConfig, hexcode, code,
                   initialGas, runtimeConfig, execFunc, setCodeCalls,
                   execCount, lastCall, result, stderr>>

\* Lines 257-271.
Dispatch ==
    /\ pc = "dispatch"
    /\ IF ctx.create
       THEN /\ input' = CreatePayload(code, input)
            /\ execFunc' = "create"
            /\ UNCHANGED <<statedb, setCodeCalls>>
       ELSE /\ statedb' = IF ShouldInstall(code) THEN SetCode(statedb, code) ELSE statedb
            /\ setCodeCalls' = IF ShouldInstall(code) THEN setCodeCalls + 1
                               ELSE setCodeCalls
            /\ execFunc' = "call"
            /\ UNCHANGED input
    /\ Goto("exec")
    /\ UNCHANGED <<ctx, env, tracer, debugLogger, genesisConfig, hexcode, code,
                   initialGas, runtimeConfig, cpuProfile, hexInput, execCount, lastCall,
                   result, stdout, stderr>>

\* Lines 85 and 98 (the closures: lines 260-263 and 268-270): one invocation of
\* the unit of work.
Invoke ==
    /\ pc = "exec"
    /\ MayInvoke(ctx.bench, execCount)
    /\ \E r \in EngineResults(runtimeConfig.GasLimit) :
         LET db == StateForInvocation(statedb, execCount)
         IN  /\ lastCall' = [entry |-> IF execFunc = "create" THEN "Create" ELSE "Call",
                             payload |-> input, receiverCode |-> db.code,
                             stateBefore |-> db.writes, returned |-> r]
             /\ statedb' = EngineWrites(db)
             /\ result' = Retain(result, r, execCount)
             /\ stdout' = IF runtimeConfig.Tracer = "json"
                          THEN Append(stdout, Tok("json", <<>>, "", 0))
                          ELSE stdout
    /\ execCount' = execCount + 1
    /\ UNCHANGED <<ctx, env, pc, exit, failure, tracer, debugLogger, genesisConfig, hexcode,
                   code, initialGas, runtimeConfig, cpuProfile, hexInput, input,
                   execFunc, setCodeCalls, stderr>>

\* Lines 87-105: timedExec returns.
TimedExecReturn ==
    /\ pc = "exec"
    /\ execCount >= 1
    /\ Goto("dump")
    /\ UNCHANGED <<ctx, env, tracer, debugLogger, statedb, genesisConfig, hexcode, code,
                   initialGas, runtimeConfig, cpuProfile, hexInput, input,
                   execFunc, setCodeCalls, execCount, lastCall, result, stdout, stderr>>

\* Lines 276-280.
Dump ==
    /\ pc = "dump"
    /\ stdout' = IF ctx.dump
                 THEN Append(stdout, Tok("dump", statedb.code, "", statedb.writes))
                 ELSE stdout
    /\ Goto("memprofile")
    /\ UNCHANGED <<ctx, env, tracer, debugLogger, statedb, genesisConfig, hexcode, code,
                   initialGas, runtimeConfig, cpuProfile, hexInput, input,
                   execFunc, setCodeCalls, execCount, lastCall, result, stderr>>

\* Lines 282-293.
WriteMemProfile ==
    /\ pc = "memprofile"
    /\ IF ctx.memprofile /\ ~env.memOK
       THEN Exit1("could not write memory profile")
       ELSE Goto("debug") /\ UNCHANGED <<cpuProfile, stdout>>
    /\ UNCHANGED <<ctx, env, tracer, debugLogger, statedb, genesisConfig, hexcode, code,
                   initialGas, runtimeConfig, hexInput, input, execFunc,
                   setCodeCalls, execCount, lastCall, result, stderr>>

\* Lines 295-302.
RenderDebug ==
    /\ pc = "debug"
    /\ stderr' = IF ctx.debug THEN stderr \o DebugRender(debugLogger) ELSE stderr
    /\ Goto("stats")
    /\ UNCHANGED <<ctx, env, tracer, debugLogger, statedb, genesisConfig, hexcode, code,
                   initialGas, runtimeConfig, cpuProfile, hexInput, input,
                   execFunc, setCodeCalls, execCount, lastCall, result, stdout>>

\* Lines 304-310.
PrintStats ==
    /\ pc = "stats"
    /\ stderr' = stderr \o StatsLine(ctx.bench, ctx.statdump, initialGas, result.gasLeft)
    /\ Goto("output")
    /\ UNCHANGED <<ctx, env, tracer, debugLogger, statedb, genesisConfig, hexcode, code,
                   initialGas, runtimeConfig, cpuProfile, hexInput, input,
                   execFunc, setCodeCalls, execCount, lastCall, result, stdout>>

\* Lines 311-316.
PrintResult ==
    /\ pc = "output"
    /\ stdout' = stdout \o ResultLines(tracer, result.output, result.err)
    /\ Goto("return")
    /\ UNCHANGED <<ctx, env, tracer, debugLogger, statedb, genesisConfig, hexcode, code,
                   initialGas, runtimeConfig, cpuProfile, hexInput, input,
                   execFunc, setCodeCalls, execCount, lastCall, result, stderr>>

\* Line 318, then the deferred call of line 231.
Return ==
    /\ pc = "return"
    /\ pc' = "done"
    /\ exit' = "nil"
    /\ cpuProfile' = Deferred(cpuProfile)
    /\ UNCHANGED <<ctx, env, failure, tracer, debugLogger, statedb, genesisConfig, hexcode,
                   code, initialGas, runtimeConfig, hexInput, input, execFunc,
                   setCodeCalls, execCount, lastCall, result, stdout, stderr>>

Next ==
    \/ ChooseTracer
    \/ InitState
    \/ ResolveCode
    \/ ConfigureGas
    \/ StartCPUProfile
    \/ ResolveInput
    \/ Dispatch
    \/ Invoke
    \/ TimedExecReturn
    \/ Dump
    \/ WriteMemProfile
    \/ RenderDebug
    \/ PrintStats
    \/ PrintResult
    \/ Return

(***************************************************************************)
(* The state a process starts in (the zero values of runCmd's variables),  *)
(* and the command lines and surroundings each specification covers.       *)
(***************************************************************************)
Start ==
    /\ pc = "start"
    /\ exit = "running"
    /\ failure = ""
    /\ tracer = "nil"
    /\ debugLogger = FALSE
    /\ statedb = EmptyState
    /\ genesisConfig = [GasLimit |-> 0]
    /\ hexcode = <<>>
    /\ code = <<>>
    /\ initialGas = 0
    /\ runtimeConfig = [GasLimit |-> 0, Tracer |-> "nil", Debug |-> FALSE]
    /\ cpuProfile = "off"
    /\ hexInput = <<>>
    /\ input = <<>>
    /\ execFunc = "unset"
    /\ setCodeCalls = 0
    /\ execCount = 0
    /\ lastCall = NoCall
    /\ result = NoResult
    /\ stdout = <<>>
    /\ stderr = <<>>

NoGenesis == [ok |-> FALSE, GasLimit |-> 0, code |-> <<>>]
Files(texts) == {NoFile} \cup {File(d) : d \in texts}

\* A file, a stream or a profile the command line does not name is never looked at.
Relevant(c, e) ==
    /\ (~c.genesis => e.genesis = NoGenesis)
    /\ (c.codefile # "-" => e.stdin = NoFile)
    /\ (c.codefile \in {"", "-"} => e.codeFile = NoFile)
    /\ (c.codefile # "" \/ c.code # <<>> \/ c.arg = "" => e.source = NoFile)
    /\ (~c.inputfile => e.inputFile = NoFile)
    /\ (~c.cpuprofile => e.cpuOK)
    /\ (~c.memprofile => e.memOK)
    /\ (e.genesis.ok \/ e.genesis = NoGenesis)

\* Code and input resolution, dispatch: reporting flags off.
InitResolve ==
    /\ ctx \in [machine : {FALSE}, debug : {FALSE}, genesis : BOOLEAN,
                codefile : {"", "-", "code.hex"}, code : FlagTexts,
                arg : {"", "prog.easm"}, gas : {1}, cpuprofile : {FALSE},
                inputfile : BOOLEAN, input : {<<>>, <<"0", "1">>, <<"1">>},
                create : BOOLEAN, bench : BOOLEAN, dump : {FALSE},
                memprofile : {FALSE}, statdump : {FALSE}]
    /\ env \in [genesis : {NoGenesis} \cup
                          [ok : {TRUE}, GasLimit : {0}, code : SeedCodes],
                stdin : Files(FileTexts), codeFile : Files(FileTexts),
                source : Files(CompiledBins),
                inputFile : Files({<<"0", "2", "\n">>, <<"2">>}),
                cpuOK : {TRUE}, memOK : {TRUE}]
    /\ Relevant(ctx, env)
    /\ Start

SpecResolve == InitResolve /\ [][Next]_vars

\* CPU and memory profiling across the ways a run ends.
InitProfile ==
    /\ ctx \in [machine : {FALSE}, debug : {FALSE}, genesis : BOOLEAN,
                codefile : {"", "code.hex"}, code : {<<>>, <<"6", "0">>, <<"6">>},
                arg : {"", "prog.easm"}, gas : {1}, cpuprofile : BOOLEAN,
                inputfile : BOOLEAN, input : {<<>>, <<"0", "1">>, <<"1">>},
                create : {FALSE}, bench : BOOLEAN, dump : {FALSE},
                memprofile : BOOLEAN, statdump : {FALSE}]
    /\ env \in [genesis : {NoGenesis} \cup
                          [ok : {TRUE}, GasLimit : {0}, code : {<<>>}],
                stdin : {NoFile}, codeFile : Files({<<"f", "e", "\n">>}),
                source : Files({<<"5", "b">>}),
                inputFile : Files({<<"0", "2", "\n">>, <<"2">>}),
                cpuOK : BOOLEAN, memOK : BOOLEAN]
    /\ Relevant(ctx, env)
    /\ Start

SpecProfile == InitProfile /\ [][Next]_vars

\* Gas, tracers and reporting: one inline code text, no files.
InitReport ==
    /\ ctx \in [machine : BOOLEAN, debug : BOOLEAN, genesis : BOOLEAN,
                codefile : {""}, code : {<<"6", "0">>},
                arg : {""}, gas : 0..MaxGas, cpuprofile : {FALSE},
                inputfile : {FALSE}, input : {<<>>},
                create : BOOLEAN, bench : BOOLEAN, dump : BOOLEAN,
                memprofile : BOOLEAN, statdump : BOOLEAN]
    /\ env \in [genesis : {NoGenesis} \cup
                          [ok : {TRUE}, GasLimit : 0..MaxGas, code : {<<>>}],
                stdin : {NoFile}, codeFile : {NoFile}, source : {NoFile},
                inputFile : {NoFile}, cpuOK : {TRUE}, memOK : BOOLEAN]
    /\ Relevant(ctx, env)
    /\ Start

SpecReport == InitReport /\ [][Next]_vars

(***************************************************************************)
(* Properties.                                                             *)
(***************************************************************************)
\* What the command line and the surroundings hand to the run.
SeedCode == IF ctx.genesis THEN env.genesis.code ELSE <<>>
GenesisGasLimit == IF ctx.genesis THEN env.genesis.GasLimit ELSE 0

Has(stream, kind) == \E i \in 1..Len(stream) : stream[i].kind = kind
IsRendering(t) == t.kind \in {"trace", "logs"}
OutputLine == Tok("output", result.output, "", 0)
ErrorLine == Tok("error", <<>>, result.err, 0)
ErrorLines == IF result.err # "" THEN <<ErrorLine>> ELSE <<>>
DumpLines == IF ctx.dump THEN <<Tok("dump", statedb.code, "", statedb.writes)>> ELSE <<>>

\* The run left the code resolver with a resolved code.
PastCode ==
    \/ pc \notin {"start", "genesis", "code", "done"}
    \/ /\ pc = "done"
       /\ failure \notin {"Failed to read genesis file", "Could not load code",
                          "Invalid input length for hex data", "compile"}

\* The run built its execution configuration.
PastGas == PastCode /\ pc # "gas"

\* timedExec returned.
PastExec ==
    \/ pc \in {"dump", "memprofile", "debug", "stats", "output", "return"}
    \/ pc = "done" /\ execCount >= 1

\* C1 as stated (refuted): the inline code flag, when given, is what the run
\* executes, whatever the codefile flag and the positional argument say.
C1_InlineFirst ==
    PastCode =>
        /\ ctx.code # <<>> => code = FromHex(TrimSpace(ctx.code))
        /\ ctx.code = <<>> /\ ctx.codefile = "-" =>
               code = FromHex(TrimSpace(env.stdin.data))
        /\ ctx.code = <<>> /\ ctx.codefile \notin {"", "-"} =>
               code = FromHex(TrimSpace(env.codeFile.data))
        /\ ctx.code = <<>> /\ ctx.codefile = "" /\ ctx.arg # "" =>
               code = Hex2Bytes(env.source.data)
        /\ ctx.code = <<>> /\ ctx.codefile = "" /\ ctx.arg = "" => code = <<>>

\* C1 amended: the codefile flag comes first.  Whenever it is given, the resolved
\* code is the decoding of what stdin ("-") or the named file holds, whatever the
\* inline code flag says; the inline flag is decoded only when the codefile flag is
\* empty; the positional source file is compiled only when both flags are empty;
\* with none of the three the resolved code is empty.
C1_CodefileFirst ==
    PastCode =>
        /\ ctx.codefile = "-" => code = FromHex(TrimSpace(env.stdin.data))
        /\ ctx.codefile \notin {"", "-"} => code = FromHex(TrimSpace(env.codeFile.data))
        /\ ctx.codefile = "" /\ ctx.code # <<>> => code = FromHex(TrimSpace(ctx.code))
        /\ ctx.codefile = "" /\ ctx.code = <<>> /\ ctx.arg # "" =>
               code = Hex2Bytes(env.source.data)
        /\ ctx.codefile = "" /\ ctx.code = <<>> /\ ctx.arg = "" => code = <<>>

\* Both flags and the positional argument given: the code is the file's, not the flag's.
C1_Witness ==
    /\ PastCode
    /\ ctx.codefile = "code.hex" /\ ctx.code = <<"6", "0">> /\ ctx.arg # ""
    /\ code = <<254>>

\* C2: a run whose trimmed hex text of the code or of the input has odd length ends
\* in the length-validation failure with a nonzero exit, the unit of work is never
\* invoked, and the odd text is never decoded.
C2_OddHexNeverExecutes ==
    /\ Len(hexcode) % 2 = 1 =>
           /\ pc = "done" /\ exit = "exit1"
           /\ failure = "Invalid input length for hex data"
           /\ execCount = 0 /\ lastCall = NoCall /\ execFunc = "unset"
           /\ code = <<>>
    /\ Len(hexInput) % 2 = 1 =>
           /\ pc = "done" /\ exit = "exit1"
           /\ failure = "input length must be even"
           /\ execCount = 0 /\ lastCall = NoCall /\ execFunc = "unset"
           /\ input = <<>>

\* The input is odd only once trimmed, after a code that resolved.
C2_Witness ==
    /\ pc = "done" /\ exit = "exit1"
    /\ ctx.inputfile /\ env.inputFile.data = <<"2">> /\ hexInput = <<"2">>
    /\ code = <<96>>

\* C3: in create mode every invocation hands the engine's create entry point the
\* resolved code followed by the resolved input, and runCmd never calls SetCode on
\* the receiver.
C3_CreatePayload ==
    ctx.create =>
        /\ setCodeCalls = 0
        /\ PastCode /\ pc # "done" => statedb.code = SeedCode
        /\ execCount >= 1 =>
               /\ lastCall.entry = "Create"
               /\ lastCall.payload = code \o FromHex(hexInput)
               /\ lastCall.receiverCode = SeedCode

\* A second benchmark iteration in create mode, with a code and an input.
C3_Witness ==
    /\ ctx.create /\ ctx.bench /\ execCount >= 2
    /\ code = <<96, 1>> /\ hexInput = <<"0", "2">>
    /\ lastCall.payload = <<96, 1, 2>>

\* C4: in call mode the code at the receiver, as the engine's call entry point is
\* invoked, is the resolved code if that is non-empty, and the code the genesis
\* seeded there otherwise.
C4_ReceiverCode ==
    ~ctx.create =>
        /\ pc = "exec" => statedb.code = IF code # <<>> THEN code ELSE SeedCode
        /\ execCount >= 1 =>
               /\ lastCall.entry = "Call"
               /\ lastCall.payload = FromHex(hexInput)
               /\ lastCall.receiverCode = IF code # <<>> THEN code ELSE SeedCode

\* The resolved code replaces the code the genesis seeded at the receiver.
C4_Witness ==
    /\ ~ctx.create /\ execCount >= 1
    /\ SeedCode = <<254>> /\ code = <<96>>
    /\ lastCall.receiverCode = <<96>>

\* C5: the gas limit of the execution configuration is the genesis gas limit when
\* that is nonzero, whatever the gas flag says, and the gas flag otherwise (no
\* genesis file included); the stats line reports that gas minus the gas left.
C5_InitialGas ==
    LET expected == IF GenesisGasLimit > 0 THEN GenesisGasLimit ELSE ctx.gas
    IN  /\ PastGas => runtimeConfig.GasLimit = expected /\ initialGas = expected
        /\ \A i \in 1..Len(stderr) :
               stderr[i].kind = "stats" => stderr[i].n = expected - result.gasLeft
        /\ exit = "nil" /\ (ctx.bench \/ ctx.statdump) => Has(stderr, "stats")

\* A genesis gas limit and a different, nonzero gas flag; some gas was used.
C5_Witness ==
    /\ exit = "nil"
    /\ GenesisGasLimit = 2 /\ ctx.gas = 1
    /\ result.gasLeft = 1
    /\ \E i \in 1..Len(stderr) : stderr[i].kind = "stats" /\ stderr[i].n = 1

\* C6 as stated (refuted): after an engine error, whatever the tracer, bench and
\* dump flags (no memory profile asked for), the run returns nil and the error text
\* is on standard output.
C6_ErrorAlwaysPrinted ==
    pc = "done" /\ execCount >= 1 /\ result.err # "" /\ ~ctx.memprofile =>
        /\ exit = "nil"
        /\ \E i \in 1..Len(stdout) : stdout[i] = ErrorLine

\* C6 amended: an engine error is never fatal.  The run goes through the reporting
\* steps and returns nil unless writing a requested memory profile fails (which
\* ends the process with or without an engine error); the harness prints the error
\* text, right after the output line, exactly when no tracer is active.
C6_ErrorNotFatal ==
    pc = "done" /\ execCount >= 1 /\ result.err # "" =>
        /\ exit = IF ctx.memprofile /\ ~env.memOK THEN "exit1" ELSE "nil"
        /\ exit = "exit1" => failure = "could not write memory profile"
        /\ exit = "nil" =>
               /\ ctx.dump => Has(stdout, "dump")
               /\ ctx.debug => Has(stderr, "logs")
               /\ ctx.bench \/ ctx.statdump => Has(stderr, "stats")
               /\ Has(stdout, "error") <=> ~ctx.machine /\ ~ctx.debug
               /\ ~ctx.machine /\ ~ctx.debug =>
                      /\ Len(stdout) >= 2
                      /\ stdout[Len(stdout) - 1] = OutputLine
                      /\ stdout[Len(stdout)] = ErrorLine

\* An engine error in a benchmarked run with a dump and no tracer.
C6_Witness ==
    /\ exit = "nil" /\ result.err = "execution reverted"
    /\ ctx.bench /\ ctx.dump /\ ~ctx.machine /\ ~ctx.debug
    /\ execCount >= 2
    /\ stdout[Len(stdout)] = ErrorLine

\* C7 (refuted by the code): a CPU profile that was started is stopped when the
\* process ends.
C7_ProfileStopped ==
    pc = "done" /\ cpuProfile # "off" => cpuProfile = "stopped"

\* C8 as stated (refuted): with debug set, the trace is rendered and then the logs.
C8_TraceThenLogs ==
    exit = "nil" /\ ctx.debug =>
        SelectSeq(stderr, IsRendering)
            = <<Tok("trace", <<>>, "#### TRACE ####", 0), Tok("logs", <<>>, "#### LOGS ####", 0)>>

\* C8 amended: in a run that reaches the rendering step, with debug set the log
\* records are rendered to standard error; the captured trace is rendered before
\* them only when the machine flag is not set (with both flags the JSON tracer is
\* the tracer, no structured logger exists, and the logs alone are rendered).
\* Without debug neither is rendered.
C8_DebugRendering ==
    /\ exit = "nil" =>
           SelectSeq(stderr, IsRendering)
               = IF ~ctx.debug THEN <<>>
                 ELSE IF ctx.machine
                      THEN <<Tok("logs", <<>>, "#### LOGS ####", 0)>>
                      ELSE <<Tok("trace", <<>>, "#### TRACE ####", 0),
                             Tok("logs", <<>>, "#### LOGS ####", 0)>>
    /\ pc \in {"stats", "output", "return"} /\ ctx.debug => Has(stderr, "logs")

\* Debug and machine both set: the logs without the trace.
C8_Witness ==
    /\ exit = "nil" /\ ctx.debug /\ ctx.machine
    /\ Has(stderr, "logs") /\ ~Has(stderr, "trace")

\* C9 as stated (refuted): with no tracer, standard output is the output line and,
\* after an error, the error line, and nothing else.
C9_OnlyResultLines ==
    exit = "nil" =>
        IF ~ctx.machine /\ ~ctx.debug
        THEN stdout = <<OutputLine>> \o ErrorLines
        ELSE ~Has(stdout, "output") /\ ~Has(stdout, "error")

\* C9 amended: with no tracer, standard output is the state dump if the dump flag
\* is set, then exactly one line with the output, then the error line if and only
\* if the unit of work returned an error; with a tracer the harness writes neither
\* the output line nor the error line.
C9_ResultLines ==
    exit = "nil" =>
        IF ~ctx.machine /\ ~ctx.debug
        THEN stdout = DumpLines \o <<OutputLine>> \o ErrorLines
        ELSE ~Has(stdout, "output") /\ ~Has(stdout, "error")

\* No tracer, a dump and an engine error: three things on standard output.
C9_Witness ==
    /\ exit = "nil" /\ ~ctx.machine /\ ~ctx.debug /\ ctx.dump
    /\ result.err # "" /\ result.output = <<171>>
    /\ Len(stdout) = 3

\* C10: timedExec invokes the unit of work once in normal mode and at least once
\* in benchmark mode; what it returns is what the last invocation returned; each
\* invocation starts from the state store as the one before left it.
C10_TimedExec ==
    /\ ~ctx.bench => execCount <= 1
    /\ PastExec => execCount >= 1
    /\ execCount >= 1 =>
           /\ result = lastCall.returned
           /\ lastCall.stateBefore = execCount - 1
           /\ statedb.writes = execCount

\* timedExec returned after two benchmark iterations.
C10_Witness ==
    /\ pc = "dump" /\ ctx.bench /\ execCount >= 2
    /\ lastCall.stateBefore >= 1
    /\ result.output = <<171>> /\ result.err = ""
====
